---- MODULE Spec2Model ----
(***************************************************************************)
(* Model of optimize_portfolio and calculate_weights of streamlit_app.py.  *)
(*                                                                         *)
(* One call of optimize_portfolio(input_data, market_data) is a process    *)
(* whose program counter walks through the statements of the function.     *)
(* Floating-point values are modelled as exact rationals extended with     *)
(* NaN, +inf and -inf, with the IEEE/numpy rules for the special values    *)
(* (signed zeros are not distinguished, binary rounding error is not       *)
(* modelled).  Exceptions end the call in pc = "error".                    *)
(*                                                                         *)
(* The requests considered list each symbol at most once, in               *)
(* available_assets and in current_portfolio, and market_data holds rows   *)
(* only for symbols the request names (the call reads no other row).       *)
(***************************************************************************)
EXTENDS Integers, Sequences, FiniteSets, TLC

VARIABLES
    investment_amount,     \* input_data['investment_amount']
    risk_profile,          \* input_data['risk_profile']
    symbols,               \* symbols of input_data['available_assets'], in order
    current_portfolio,     \* input_data['current_portfolio']
    market_data,           \* the market_data table, one row per symbol or absent
    data,                  \* market_data.loc[symbols].dropna()
    weights,               \* the Series weights (raw, then normalised in place)
    unsuitable_positions,
    sell_operations,
    cash_from_sales,
    total_cash_available,
    operations,
    cash_spent,
    cash_remaining,
    final_portfolio,
    total_investment,      \* statistics.total_investment
    fallback,              \* what yf.Ticker(symbol).history(...) answered, per symbol
    idx,                   \* position of the running for loop
    pc,
    err

vars == <<investment_amount, risk_profile, symbols, current_portfolio, market_data,
          data, weights, unsuitable_positions, sell_operations, cash_from_sales,
          total_cash_available, operations, cash_spent, cash_remaining,
          final_portfolio, total_investment, fallback, idx, pc, err>>

inputs == <<investment_amount, risk_profile, symbols, current_portfolio, market_data>>

----------------------------------------------------------------------------
(* Bounds of the model *)

MaxQty == 1

SymOrder == <<"A", "B">>          \* the symbols, in index (alphabetical) order
Symbols == {SymOrder[k] : k \in 1..Len(SymOrder)}
Quantities == 0..MaxQty
InvestmentAmounts == {0, 1030}
RiskProfiles == {"conservative", "moderate", "aggressive", "balanced", "growth"}
ProfileInputs == RiskProfiles \cup {"speculative"}

----------------------------------------------------------------------------
(* Floating-point values: rationals n/d in lowest terms, NaN, +inf, -inf *)

RECURSIVE GCD(_, _)
GCD(a, b) == IF b = 0 THEN a ELSE GCD(b, a % b)

Abs(n) == IF n < 0 THEN -n ELSE n

Num(n, d) ==
    LET s == IF d < 0 THEN -1 ELSE 1
        g == GCD(Abs(n), Abs(d))
    IN  [k |-> "num", n |-> (s * n) \div g, d |-> (s * d) \div g]

NaN == [k |-> "nan", n |-> 0, d |-> 1]
PInf == [k |-> "inf", n |-> 1, d |-> 1]
NInf == [k |-> "inf", n |-> -1, d |-> 1]
Zero == Num(0, 1)
One == Num(1, 1)
Int2F(n) == Num(n, 1)

IsNaN(x) == x.k = "nan"
IsInf(x) == x.k = "inf"
IsNum(x) == x.k = "num"
Sign(x) == IF x.n > 0 THEN 1 ELSE IF x.n < 0 THEN -1 ELSE 0
InfOf(s) == IF s < 0 THEN NInf ELSE PInf

RNeg(x) == IF IsNaN(x) THEN NaN ELSE [x EXCEPT !.n = -x.n]

RAdd(x, y) ==
    IF IsNaN(x) \/ IsNaN(y) THEN NaN
    ELSE IF IsInf(x) /\ IsInf(y) THEN (IF x.n = y.n THEN x ELSE NaN)
    ELSE IF IsInf(x) THEN x
    ELSE IF IsInf(y) THEN y
    ELSE Num(x.n * y.d + y.n * x.d, x.d * y.d)

RSub(x, y) == RAdd(x, RNeg(y))

RMul(x, y) ==
    IF IsNaN(x) \/ IsNaN(y) THEN NaN
    ELSE IF IsInf(x) \/ IsInf(y)
         THEN (IF Sign(x) * Sign(y) = 0 THEN NaN ELSE InfOf(Sign(x) * Sign(y)))
    ELSE Num(x.n * y.n, x.d * y.d)

\* numpy division: x/0 is +-inf, 0/0 and inf/inf are NaN, no exception
RDiv(x, y) ==
    IF IsNaN(x) \/ IsNaN(y) THEN NaN
    ELSE IF IsInf(x) THEN (IF IsInf(y) THEN NaN
                           ELSE InfOf(Sign(x) * (IF Sign(y) < 0 THEN -1 ELSE 1)))
    ELSE IF IsInf(y) THEN Zero
    ELSE IF y.n = 0 THEN (IF x.n = 0 THEN NaN ELSE InfOf(Sign(x)))
    ELSE Num(x.n * y.d, x.d * y.n)

\* comparisons: every comparison with NaN is False
REq(x, y) == ~IsNaN(x) /\ ~IsNaN(y) /\ x = y
RLt(x, y) ==
    /\ ~IsNaN(x) /\ ~IsNaN(y)
    /\ IF IsInf(x) THEN x.n < 0 /\ y # x
       ELSE IF IsInf(y) THEN y.n > 0
       ELSE x.n * y.d < y.n * x.d
RGt(x, y) == RLt(y, x)
RLe(x, y) == RLt(x, y) \/ REq(x, y)
RGe(x, y) == RLe(y, x)

\* math.floor of a finite value
Floor(x) == x.n \div x.d

\* int(x) of a finite value: truncation toward zero
Trunc(x) == IF x.n >= 0 THEN x.n \div x.d ELSE -((-x.n) \div x.d)

\* round(x, 2): to the nearest hundredth, ties to even; NaN and inf unchanged
Round2(x) ==
    IF ~IsNum(x) THEN x
    ELSE LET f == (100 * x.n) \div x.d
             r == 100 * x.n - f * x.d
         IN  IF 2 * r < x.d THEN Num(f, 100)
             ELSE IF 2 * r > x.d THEN Num(f + 1, 100)
             ELSE IF f % 2 = 0 THEN Num(f, 100) ELSE Num(f + 1, 100)

\* Series.sum(): NaN entries are skipped (skipna=True), the empty sum is 0
RECURSIVE SumOver(_, _)
SumOver(f, S) ==
    IF S = {} THEN Zero
    ELSE LET s == CHOOSE t \in S : TRUE
         IN  IF IsNaN(f[s]) THEN SumOver(f, S \ {s})
             ELSE RAdd(f[s], SumOver(f, S \ {s}))

SeriesSum(f) == SumOver(f, DOMAIN f)

\* the sum built by repeated += over a list (NaN is not skipped)
RECURSIVE SeqSum(_)
SeqSum(q) == IF q = <<>> THEN Zero ELSE RAdd(SeqSum(SubSeq(q, 1, Len(q) - 1)), q[Len(q)])

----------------------------------------------------------------------------
(* market_data rows *)

Volatilities == {Num(0, 1), Num(1, 10), Num(1, 2)}
AverageReturns == {Num(-1, 5), Num(0, 1), Num(1, 5)}
Prices == [s \in Symbols |-> IF s = "A" THEN {Num(0, 1), Num(100, 1)}
                                        ELSE {Num(0, 1), Num(50, 1)}]

Row(v, r, p) == [present |-> TRUE, Volatility |-> v, AverageReturn |-> r, Price |-> p]
AbsentRow == [present |-> FALSE, Volatility |-> NaN, AverageReturn |-> NaN, Price |-> NaN]

RowsOf(s) ==
    {Row(v, r, p) : v \in Volatilities, r \in AverageReturns, p \in Prices[s]}
    \cup {Row(NaN, NaN, p) : p \in {q \in Prices[s] : q # Zero}}
    \cup {Row(NaN, NaN, NaN), AbsentRow}

InIndex(md, s) == s \in DOMAIN md /\ md[s].present
HasNaN(row) == IsNaN(row.Volatility) \/ IsNaN(row.AverageReturn) \/ IsNaN(row.Price)

----------------------------------------------------------------------------
(* calculate_weights *)

\* the k-th smallest volatility (k from 0), counted with multiplicity
KthVolatility(d, k) ==
    CHOOSE v \in {d[s].Volatility : s \in DOMAIN d} :
        /\ Cardinality({s \in DOMAIN d : RLt(d[s].Volatility, v)}) <= k
        /\ k < Cardinality({s \in DOMAIN d : RLe(d[s].Volatility, v)})

\* a quantile without interpolation, taking the next higher observation
Quantile90Higher(d) ==
    LET n == Cardinality(DOMAIN d)
    IN  IF n = 0 THEN NaN ELSE KthVolatility(d, (9 * (n - 1) + 9) \div 10)

\* data["Volatility"].quantile(0.9): linear interpolation at position 0.9*(n-1)
Quantile90(d) ==
    LET n == Cardinality(DOMAIN d)
        lo == (9 * (n - 1)) \div 10
        frac == Num(9 * (n - 1) - 10 * lo, 10)
    IN  IF n = 0 THEN NaN
        ELSE IF frac = Zero THEN KthVolatility(d, lo)
        ELSE RAdd(KthVolatility(d, lo),
                  RMul(frac, RSub(KthVolatility(d, lo + 1), KthVolatility(d, lo))))

\* the formula of each risk profile, for one row
ProfileWeight(row, profile) ==
    IF profile = "conservative" THEN RDiv(One, row.Volatility)
    ELSE IF profile = "moderate" THEN RDiv(row.AverageReturn, row.Volatility)
    ELSE IF profile = "aggressive" THEN row.AverageReturn
    ELSE IF profile = "balanced"
         THEN RDiv(RAdd(row.AverageReturn, RDiv(One, row.Volatility)), Int2F(2))
    ELSE RSub(RMul(row.AverageReturn, Int2F(2)), row.Volatility)

\* weights[data["Volatility"] > data["Volatility"].quantile(0.9)] = 0
Excluded(d, s) == RGt(d[s].Volatility, Quantile90(d))

calculate_weights(d, profile) ==
    [s \in DOMAIN d |-> IF Excluded(d, s) THEN Zero ELSE ProfileWeight(d[s], profile)]

\* a normalisation that leaves the weights alone when their sum is zero
NormalizedUnlessZero(w) ==
    IF SeriesSum(w) = Zero THEN w ELSE [s \in DOMAIN w |-> RDiv(w[s], SeriesSum(w))]

\* a normalisation by the number of weights instead of their sum
NormalizedByCount(w) == [s \in DOMAIN w |-> RDiv(w[s], Int2F(Cardinality(DOMAIN w)))]

\* weights /= weights.sum()
Normalized(w) == [s \in DOMAIN w |-> RDiv(w[s], SeriesSum(w))]

----------------------------------------------------------------------------
(* helpers of optimize_portfolio *)

SeqToSet(q) == {q[k] : k \in 1..Len(q)}

\* market_data.loc[symbols].dropna()
Filtered(md, syms) ==
    [s \in {t \in SeqToSet(syms) : ~HasNaN(md[t])} |-> md[s]]

Operation(symbol, action, quantity, investment) ==
    [symbol |-> symbol, action |-> action, quantity |-> quantity, investment |-> investment]

\* int(allocation / price) if price > 0 else 0
BuyQuantity(allocation, price) ==
    IF RGt(price, Zero) THEN Trunc(RDiv(allocation, price)) ELSE 0

\* int() of NaN raises ValueError, int() of an infinity raises OverflowError
IntFails(allocation, price) == RGt(price, Zero) /\ ~IsNum(RDiv(allocation, price))

\* quantity * price without the rounding
InvestmentUnrounded(quantity, price) == RMul(Int2F(quantity), price)

\* round(quantity * price, 2)
Investment(quantity, price) == Round2(RMul(Int2F(quantity), price))

\* quantity of a symbol in a list of positions or operations, 0 when absent
QuantityIn(q, s) ==
    IF \E k \in 1..Len(q) : q[k].symbol = s
    THEN q[CHOOSE k \in 1..Len(q) : q[k].symbol = s].quantity
    ELSE 0

SymbolsOf(q) == {q[k].symbol : k \in 1..Len(q)}

\* final_portfolio["quantity"].fillna(0) + operations_df["quantity"].fillna(0):
\* the sum is aligned on the union index, a label without a buy row gives NaN
MergedQuantity(portfolio, ops, s) ==
    IF s \in SymbolsOf(ops)
    THEN Int2F(QuantityIn(portfolio, s) + QuantityIn(ops, s))
    ELSE NaN

\* a filter that only drops the rows whose quantity is 0
KeepRowNonZero(q) == ~REq(q, Zero)

\* final_portfolio[final_portfolio["quantity"] > 0]
KeepRow(q) == RGt(q, Zero)

RECURSIVE SelectRows(_, _, _)
SelectRows(order, portfolio, ops) ==
    IF order = <<>> THEN <<>>
    ELSE LET s == Head(order)
             q == MergedQuantity(portfolio, ops, s)
             rest == SelectRows(Tail(order), portfolio, ops)
         IN  IF s \in SymbolsOf(portfolio) \cup SymbolsOf(ops) /\ KeepRow(q)
             THEN <<[symbol |-> s, quantity |-> q]>> \o rest
             ELSE rest

\* (final quantity * market_data["Price"]).sum()
AllocationSum(final, md) ==
    SeqSum([k \in 1..Len(final) |->
              IF IsNaN(RMul(final[k].quantity, md[final[k].symbol].Price)) THEN Zero
              ELSE RMul(final[k].quantity, md[final[k].symbol].Price)])

----------------------------------------------------------------------------
(* the inputs of one call *)

\* the sublists of a list, in the order of the list
RECURSIVE SubLists(_)
SubLists(q) ==
    IF q = <<>> THEN {<<>>}
    ELSE LET rest == SubLists(Tail(q))
         IN  rest \cup {<<Head(q)>> \o r : r \in rest}

\* lists of distinct symbols, listed in the order of SymOrder
SymbolLists == SubLists(SymOrder)

\* positions with distinct symbols
Portfolios ==
    {[k \in 1..Len(q) |-> [symbol |-> q[k], quantity |-> f[q[k]]]]
       : q \in SymbolLists, f \in [Symbols -> Quantities]}

\* the symbols a request names; the call reads no row of any other symbol
Mentioned(syms, portfolio) == SeqToSet(syms) \cup SymbolsOf(portfolio)

MarketTables == {md \in [Symbols -> UNION {RowsOf(s) : s \in Symbols}] :
                    \A s \in Symbols : md[s] \in RowsOf(s)}

\* answers of the single-symbol lookup yf.Ticker(symbol).history(period="1d")
NotAsked == [asked |-> FALSE, failed |-> FALSE, price |-> Zero]
LookupFailed == [asked |-> TRUE, failed |-> TRUE, price |-> Zero]
LookupPrices == {Num(50, 1), Num(1, 8)}
LookupAnswers == {LookupFailed} \cup {[asked |-> TRUE, failed |-> FALSE, price |-> p] : p \in LookupPrices}

NoSeries == [s \in {} |-> Zero]

Init ==
    /\ investment_amount \in {Int2F(a) : a \in InvestmentAmounts}
    /\ risk_profile \in ProfileInputs
    /\ symbols \in SymbolLists
    /\ current_portfolio \in Portfolios
    /\ market_data \in MarketTables
    /\ \A s \in Symbols \ Mentioned(symbols, current_portfolio) : market_data[s] = AbsentRow
    /\ data = NoSeries
    /\ weights = NoSeries
    /\ unsuitable_positions = <<>>
    /\ sell_operations = <<>>
    /\ cash_from_sales = Zero
    /\ total_cash_available = Zero
    /\ operations = <<>>
    /\ cash_spent = Zero
    /\ cash_remaining = Zero
    /\ final_portfolio = <<>>
    /\ total_investment = Zero
    /\ fallback = [s \in Symbols |-> NotAsked]
    /\ idx = 1
    /\ pc = "filter"
    /\ err = "none"

Raise(e) == pc' = "error" /\ err' = e

----------------------------------------------------------------------------
(* the statements of optimize_portfolio *)

\* line 59: data = market_data.loc[symbols].dropna()
FilterData ==
    /\ pc = "filter"
    /\ IF \E k \in 1..Len(symbols) : ~InIndex(market_data, symbols[k])
       THEN /\ Raise("KeyError:loc")
            /\ UNCHANGED data
       ELSE /\ data' = Filtered(market_data, symbols)
            /\ pc' = "weights"
            /\ UNCHANGED err
    /\ UNCHANGED <<inputs, weights, unsuitable_positions, sell_operations, cash_from_sales,
                   total_cash_available, operations, cash_spent, cash_remaining,
                   final_portfolio, total_investment, fallback, idx>>

\* line 62: weights = calculate_weights(data, risk_profile)
ComputeWeights ==
    /\ pc = "weights"
    /\ IF risk_profile \notin RiskProfiles
       THEN /\ Raise("ValueError:profile")
            /\ UNCHANGED weights
       ELSE /\ weights' = calculate_weights(data, risk_profile)
            /\ pc' = "normalize"
            /\ UNCHANGED err
    /\ UNCHANGED <<inputs, data, unsuitable_positions, sell_operations, cash_from_sales,
                   total_cash_available, operations, cash_spent, cash_remaining,
                   final_portfolio, total_investment, fallback, idx>>

\* line 63: weights /= weights.sum()
NormalizeWeights ==
    /\ pc = "normalize"
    /\ weights' = Normalized(weights)
    /\ pc' = "select"
    /\ idx' = 1
    /\ UNCHANGED <<inputs, data, unsuitable_positions, sell_operations, cash_from_sales,
                   total_cash_available, operations, cash_spent, cash_remaining,
                   final_portfolio, total_investment, fallback, err>>

\* lines 67-72: one iteration of the loop over current_portfolio
SelectUnsuitable ==
    /\ pc = "select"
    /\ IF idx > Len(current_portfolio)
       THEN /\ pc' = "sell"
            /\ idx' = 1
            /\ UNCHANGED <<unsuitable_positions, err>>
       ELSE LET position == current_portfolio[idx]
                symbol == position.symbol
            IN  IF symbol \notin SeqToSet(symbols)
                THEN /\ unsuitable_positions' = Append(unsuitable_positions, position)
                     /\ idx' = idx + 1
                     /\ UNCHANGED <<pc, err>>
                ELSE IF ~InIndex(market_data, symbol)
                THEN /\ idx' = idx + 1
                     /\ UNCHANGED <<unsuitable_positions, pc, err>>
                ELSE IF symbol \notin DOMAIN weights
                THEN /\ Raise("KeyError:weights")
                     /\ UNCHANGED <<unsuitable_positions, idx>>
                ELSE /\ unsuitable_positions' =
                            IF REq(weights[symbol], Zero)
                            THEN Append(unsuitable_positions, position)
                            ELSE unsuitable_positions
                     /\ idx' = idx + 1
                     /\ UNCHANGED <<pc, err>>
    /\ UNCHANGED <<inputs, data, weights, sell_operations, cash_from_sales,
                   total_cash_available, operations, cash_spent, cash_remaining,
                   final_portfolio, total_investment, fallback>>

\* lines 77-92: one iteration of the loop over unsuitable_positions
SellPosition ==
    /\ pc = "sell"
    /\ IF idx > Len(unsuitable_positions)
       THEN /\ pc' = "cash"
            /\ UNCHANGED <<sell_operations, cash_from_sales, fallback, idx>>
       ELSE LET position == unsuitable_positions[idx]
            IN  \E answer \in LookupAnswers :
                  LET price == IF InIndex(market_data, position.symbol)
                               THEN market_data[position.symbol].Price
                               ELSE answer.price
                      investment == Investment(position.quantity, price)
                  IN  /\ fallback' = IF InIndex(market_data, position.symbol)
                                     THEN fallback
                                     ELSE [fallback EXCEPT ![position.symbol] = answer]
                      /\ cash_from_sales' = RAdd(cash_from_sales, investment)
                      /\ sell_operations' = Append(sell_operations,
                            Operation(position.symbol, "sell", position.quantity, investment))
                      /\ idx' = idx + 1
                      /\ pc' = pc
    /\ UNCHANGED <<inputs, data, weights, unsuitable_positions, total_cash_available,
                   operations, cash_spent, cash_remaining, final_portfolio,
                   total_investment, err>>

\* line 95: total_cash_available = investment_amount + cash_from_sales
TotalCash ==
    /\ pc = "cash"
    /\ total_cash_available' = RAdd(investment_amount, cash_from_sales)
    /\ pc' = "buy"
    /\ idx' = 1
    /\ UNCHANGED <<inputs, data, weights, unsuitable_positions, sell_operations,
                   cash_from_sales, operations, cash_spent, cash_remaining,
                   final_portfolio, total_investment, fallback, err>>

\* lines 100-111: one iteration of the loop over symbols
BuySymbol ==
    /\ pc = "buy"
    /\ IF idx > Len(symbols)
       THEN /\ pc' = "remaining"
            /\ UNCHANGED <<operations, cash_spent, idx, err>>
       ELSE LET symbol == symbols[idx]
            IN  IF symbol \notin DOMAIN weights
                THEN /\ Raise("KeyError:weights")
                     /\ UNCHANGED <<operations, cash_spent, idx>>
                ELSE LET allocation == RMul(total_cash_available, weights[symbol])
                         price == data[symbol].Price
                         quantity == BuyQuantity(allocation, price)
                         investment == Investment(quantity, price)
                     IN  IF IntFails(allocation, price)
                         THEN /\ Raise(IF IsNaN(RDiv(allocation, price))
                                       THEN "ValueError:int" ELSE "OverflowError:int")
                              /\ UNCHANGED <<operations, cash_spent, idx>>
                         ELSE /\ cash_spent' = RAdd(cash_spent, investment)
                              /\ operations' = Append(operations,
                                    Operation(symbol, "buy", quantity, investment))
                              /\ idx' = idx + 1
                              /\ UNCHANGED <<pc, err>>
    /\ UNCHANGED <<inputs, data, weights, unsuitable_positions, sell_operations,
                   cash_from_sales, total_cash_available, cash_remaining,
                   final_portfolio, total_investment, fallback>>

\* line 114: cash_remaining = round(total_cash_available - cash_spent, 2)
CashRemaining ==
    /\ pc = "remaining"
    /\ cash_remaining' = Round2(RSub(total_cash_available, cash_spent))
    /\ pc' = "merge"
    /\ UNCHANGED <<inputs, data, weights, unsuitable_positions, sell_operations,
                   cash_from_sales, total_cash_available, operations, cash_spent,
                   final_portfolio, total_investment, fallback, idx, err>>

\* lines 117-124: an empty list of records gives a DataFrame without a
\* "symbol" column, on which set_index("symbol") raises KeyError
MergePortfolio ==
    /\ pc = "merge"
    /\ IF current_portfolio = <<>>
       THEN /\ Raise("KeyError:portfolio")
            /\ UNCHANGED final_portfolio
       ELSE IF operations = <<>>
       THEN /\ Raise("KeyError:operations")
            /\ UNCHANGED final_portfolio
       ELSE /\ final_portfolio' = SelectRows(SymOrder, current_portfolio, operations)
            /\ pc' = "stats"
            /\ UNCHANGED err
    /\ UNCHANGED <<inputs, data, weights, unsuitable_positions, sell_operations,
                   cash_from_sales, total_cash_available, operations, cash_spent,
                   cash_remaining, total_investment, fallback, idx>>

\* lines 127-150: the statistics and the returned dictionary
Statistics ==
    /\ pc = "stats"
    /\ total_investment' = Round2(AllocationSum(final_portfolio, market_data))
    /\ pc' = "done"
    /\ UNCHANGED <<inputs, data, weights, unsuitable_positions, sell_operations,
                   cash_from_sales, total_cash_available, operations, cash_spent,
                   cash_remaining, final_portfolio, fallback, idx, err>>

Next ==
    \/ FilterData
    \/ ComputeWeights
    \/ NormalizeWeights
    \/ SelectUnsuitable
    \/ SellPosition
    \/ TotalCash
    \/ BuySymbol
    \/ CashRemaining
    \/ MergePortfolio
    \/ Statistics

Spec == Init /\ [][Next]_vars

TypeOK == pc \in {"filter", "weights", "normalize", "select", "sell", "cash", "buy",
                  "remaining", "merge", "stats", "done", "error"}

----------------------------------------------------------------------------
(* Properties *)

Returned == pc = "done"
AfterNormalize == {"select", "sell", "cash", "buy", "remaining", "merge", "stats", "done"}
AfterSelling == {"cash", "buy", "remaining", "merge", "stats", "done"}
AfterTotalCash == {"buy", "remaining", "merge", "stats", "done"}

Usable(s) == InIndex(market_data, s) /\ ~HasNaN(market_data[s])

\* the raw weights of the call, once data is filtered
RawWeights == calculate_weights(data, risk_profile)
RawSum == SeriesSum(RawWeights)

SeriesOf(a, b) == [s \in {"A", "B"} |-> IF s = "A" THEN a ELSE b]

PricesNonNegative ==
    \A s \in Symbols : InIndex(market_data, s) => RGe(market_data[s].Price, Zero)

\* C1: with investment_amount >= 0 and every market price >= 0, the returned
\* cash_remaining is >= 0 under every risk profile.
C1_CashRemainingNonNegative ==
    (Returned /\ PricesNonNegative /\ RGe(investment_amount, Zero))
        => RGe(cash_remaining, Zero)

\* C2: a position for which a sell operation is emitted does not carry its
\* original quantity into final_portfolio: the symbol's final quantity is its
\* buy quantity, and the symbol is absent when that buy quantity is 0.
C2_SoldNotCarried ==
    Returned =>
        \A k \in 1..Len(sell_operations) :
            LET s == sell_operations[k].symbol
                bought == QuantityIn(operations, s)
            IN  IF bought > 0
                THEN /\ s \in SymbolsOf(final_portfolio)
                     /\ QuantityIn(final_portfolio, s) = Int2F(bought)
                ELSE s \notin SymbolsOf(final_portfolio)

\* the scenario of C3: conservative, A (volatility 0.1, price 100) and
\* B (volatility 0.5, price 50) are the two available symbols
C3_Scenario ==
    /\ risk_profile = "conservative"
    /\ SeqToSet(symbols) = {"A", "B"}
    /\ InIndex(market_data, "A") /\ InIndex(market_data, "B")
    /\ market_data["A"].Volatility = Num(1, 10) /\ market_data["A"].Price = Num(100, 1)
    /\ market_data["B"].Volatility = Num(1, 2) /\ market_data["B"].Price = Num(50, 1)
    /\ ~HasNaN(market_data["A"]) /\ ~HasNaN(market_data["B"])

\* C3 as stated: in the scenario B is not excluded, the raw weights are
\* A = 10 and B = 2 and the normalised weights are A = 5/6 and B = 1/6.
C3_WeightsAsStated ==
    C3_Scenario =>
        /\ pc = "normalize" => weights = SeriesOf(Num(10, 1), Num(2, 1))
        /\ pc \in AfterNormalize => weights = SeriesOf(Num(5, 6), Num(1, 6))

\* C3 amended: in the scenario B (0.5 > 0.46, the interpolated 90th
\* percentile) is excluded, the raw weights are A = 10 and B = 0 and the
\* normalised weights are A = 1 and B = 0.
C3_WeightsAmended ==
    C3_Scenario =>
        /\ pc = "normalize" => weights = SeriesOf(Num(10, 1), Zero)
        /\ pc \in AfterNormalize => weights = SeriesOf(One, Zero)

C3_Witness == C3_Scenario /\ pc = "select" /\ weights = SeriesOf(One, Zero)

\* C4: when an available symbol has no usable row in market_data, the call
\* is not aborted by the lookup of that symbol.
C4_NotAborted ==
    (risk_profile \in RiskProfiles /\ \E k \in 1..Len(symbols) : ~Usable(symbols[k]))
        => ~(pc = "error" /\ err \in {"KeyError:loc", "KeyError:weights"})

\* C5: when the raw weights sum to zero, a returned result has no buy
\* operation with nonzero quantity and cash_remaining = total_cash_available
\* (every other such call ends in an error).
C5_ZeroSumNoBuy ==
    (Returned /\ REq(RawSum, Zero))
        => /\ \A k \in 1..Len(operations) : operations[k].quantity = 0
           /\ cash_remaining = total_cash_available

C5_Witness ==
    /\ Returned /\ REq(RawSum, Zero)
    /\ operations # <<>>
    /\ IsNum(cash_remaining) /\ cash_remaining.n > 0

ResolvedPrice(s) ==
    IF InIndex(market_data, s) THEN market_data[s].Price
    ELSE IF fallback[s].failed THEN Zero ELSE fallback[s].price

\* C7: every current position whose symbol is not in available_assets gets
\* exactly one sell operation, with the full quantity and investment =
\* round(quantity * resolved price, 2), and total_cash_available =
\* investment_amount + the sum of the sell investments.
C7_SellOutsideAssets ==
    /\ pc \in AfterSelling =>
          \A i \in 1..Len(current_portfolio) :
             LET position == current_portfolio[i]
                 sells == {k \in 1..Len(sell_operations) :
                              sell_operations[k].symbol = position.symbol}
             IN  position.symbol \notin SeqToSet(symbols) =>
                    /\ Cardinality(sells) = 1
                    /\ \A k \in sells :
                          /\ sell_operations[k].action = "sell"
                          /\ sell_operations[k].quantity = position.quantity
                          /\ sell_operations[k].investment =
                                Round2(RMul(Int2F(position.quantity),
                                            ResolvedPrice(position.symbol)))
    /\ pc \in AfterTotalCash =>
          total_cash_available =
             RAdd(investment_amount,
                  SeqSum([k \in 1..Len(sell_operations) |-> sell_operations[k].investment]))

C7_Witness ==
    /\ Returned
    /\ \E i \in 1..Len(current_portfolio) :
          /\ current_portfolio[i].symbol \notin SeqToSet(symbols)
          /\ current_portfolio[i].quantity > 0
          /\ fallback[current_portfolio[i].symbol].asked
          /\ ~fallback[current_portfolio[i].symbol].failed
          /\ total_cash_available # investment_amount

\* C8: every row of the returned final_portfolio has a strictly positive
\* quantity (never 0, negative or missing).
C8_FinalQuantitiesPositive ==
    Returned =>
        \A k \in 1..Len(final_portfolio) :
            /\ IsNum(final_portfolio[k].quantity)
            /\ final_portfolio[k].quantity.n > 0

C8_Witness ==
    /\ Returned
    /\ \E s \in SymbolsOf(operations) :
          /\ QuantityIn(current_portfolio, s) > 0
          /\ QuantityIn(current_portfolio, s) + QuantityIn(operations, s) < 0
          /\ s \notin SymbolsOf(final_portfolio)

\* C9: every available symbol gets exactly one buy operation, whose quantity
\* is floor(total_cash_available * weight / price) when price > 0, else 0,
\* also when the weight is negative.
C9_BuyQuantityIsFloor ==
    Returned =>
        /\ Len(operations) = Len(symbols)
        /\ \A k \in 1..Len(symbols) :
              LET s == symbols[k]
                  q == RDiv(RMul(total_cash_available, weights[s]), data[s].Price)
              IN  /\ operations[k].symbol = s
                  /\ operations[k].action = "buy"
                  /\ operations[k].quantity =
                        IF RGt(data[s].Price, Zero) /\ IsNum(q) THEN Floor(q) ELSE 0

\* C10: with an empty current_portfolio, a recognised profile, market data
\* for every available symbol and a positive weight sum, the call does not
\* end in an error.
C10_EmptyPortfolioCompletes ==
    (/\ current_portfolio = <<>>
     /\ risk_profile \in RiskProfiles
     /\ \A k \in 1..Len(symbols) : Usable(symbols[k])
     /\ \A s \in DOMAIN RawWeights : IsNum(RawWeights[s])
     /\ RGt(RawSum, Zero))
        => pc # "error"

====
